---- MODULE Spec2Model ----
(***************************************************************************)
(* LegalMind frontend: the upload page (validate / enqueue / submit /      *)
(* poll / redirect) and the chat page (bootstrap load, transcript,         *)
(* history persistence, display de-duplication).                           *)
(*                                                                         *)
(* Text is modelled as a sequence of one-character strings, so that        *)
(* split, slice, toLowerCase and includes are computed, not assumed.       *)
(***************************************************************************)
EXTENDS Integers, Sequences, FiniteSets, Bags, TLC

\* ------------------------------------------------------------------ bounds
MaxNameLen == 4      \* longest file name drawn for validateFile
MaxFiles == 2        \* tasks ever enqueued on the upload page
MaxJobs == 2         \* uploads ever submitted
MaxMsgs == 3         \* messages handed to deduplicateMessages
MaxEvents == 2       \* sendMessage calls, replacements of the auth user object, document id changes
MaxFailing == 1      \* saveChatHistory calls in flight that are going to reject
MaxPolls == 2        \* getJobStatus requests issued by poll timers, over all jobs
MaxScore == 100      \* largest risk_score classified
MaxReruns == 1       \* runs of the poll effect for an unchanged activeJobId
MaxLines == 5        \* lines of a content rendered by RichText
MaxDocs == 2         \* documents returned to getDashboardStats
MaxSwitches == 1     \* changes of the chat view's document id

\* ------------------------------------------------------- program constants
MAX_FILE_SIZE == 20 * 1024 * 1024
SUPPORTED_FORMATS == { <<".", "p", "d", "f">> }
POLL_DELAY_OK == 2000
POLL_DELAY_ERR == 4000
KeyLength == 100
SAVE_DELAY == 2000

Null == "null"       \* a string-valued field that is null / undefined
NoJob == 0           \* activeJobId === null
NoJobId == -1        \* a task whose jobId is undefined
NoProgress == -1     \* a response without a progress field
NoDoc == 0           \* a response whose result is null
NoScore == -1        \* useState<number | null>(null)

\* ------------------------------------------------------------ text helpers
NameAlphabet == {"p", "d", "f", "P", ".", "x"}

\* String.prototype.toLowerCase, on the characters the model draws
LowerChar(c) ==
  CASE c = "P" -> "p"
    [] c = "D" -> "d"
    [] c = "F" -> "f"
    [] c = "A" -> "a"
    [] OTHER -> c

toLowerCase(s) == [i \in 1..Len(s) |-> LowerChar(s[i])]

\* String.prototype.split(sep) for a one-character separator: the pieces
\* between separators, always at least one piece
RECURSIVE SplitFrom(_, _, _, _)
SplitFrom(s, sep, i, cur) ==
  IF i > Len(s) THEN <<cur>>
  ELSE IF s[i] = sep THEN <<cur>> \o SplitFrom(s, sep, i + 1, <<>>)
  ELSE SplitFrom(s, sep, i + 1, Append(cur, s[i]))

split(s, sep) == SplitFrom(s, sep, 1, <<>>)

\* Array.prototype.pop: the last element
pop(arr) == arr[Len(arr)]

\* ------------------------------------------------------------ validateFile
ERR_FORMAT == "Unsupported format. Please use .pdf"
ERR_SIZE == "File too large. Maximum size is 20MB"

FileExt(file) == <<".">> \o toLowerCase(pop(split(file.name, ".")))

validateFile(file) ==
  IF FileExt(file) \notin SUPPORTED_FORMATS THEN ERR_FORMAT
  ELSE IF file.size > MAX_FILE_SIZE THEN ERR_SIZE
  ELSE Null

\* ===================================================================
\*  Upload page
\* ===================================================================
VARIABLES
  files,         \* useState<UploadFile[]>: the task list
  uploading,     \* useState(false): handleUpload in progress
  activeJobId,   \* useState<string | null>
  upl,           \* the uploadDocument call in flight (handleUpload suspended)
  polls,         \* per job: the poll closure of the effect run for that job
  jobs,          \* the analysis service's job table
  nextJob,       \* the job id the service hands out next
  now,           \* the last Date.now() reading
  mounted,       \* the upload page is mounted
  toasts,        \* the toasts shown so far
  navigations,   \* every navigate(path) call, in order
  pollLog,       \* history: per job, the requests issued and what came back
  uploadCalls,   \* history: every uploadDocument call
  enqLog         \* history: every task as addFiles created it

\* the poll effect run again for the same job
VARIABLES
  stale,         \* per job: the poll closures of earlier runs that still have
                 \* a timer armed or a request in flight
  reruns         \* runs of the poll effect for an unchanged activeJobId

\* chat page, when the route hands the mounted view another document id
VARIABLES
  earlier,       \* per document id: the load() calls of before the last change
                 \* of the id that are still in flight, by position
  otherStore,    \* localStorage["chat_" + the document id the view is not on]
  switches       \* changes of the document id so far

\* validateFile, deduplicateMessages and the risk tiers as functions: input
\* and result
VARIABLES
  vFile, vResult,
  dIn, dOut,
  rScore, rOut,
  tContent, tOut,
  sDocs, sOut

\* chat page
VARIABLES
  documentId,      \* useParams().documentId; NoDocument on /chat
  messages,        \* useState<Message[]>
  isLoading,       \* useState(false): a send is in flight
  loadingInitial,  \* useState(true)
  header,          \* documentName, riskScore, riskyClauses, totalChunks
  suggestedQuestions,
  loads,           \* the calls of the load effect in flight, by position
  rendered,        \* isLoading as the last render handed it to sendMessage
  sendReq,         \* the chat requests in flight, in the order they were issued
  saveTimer,       \* the pending setTimeout(saveHistory, 2000)
  saveReqs,        \* the saveChatHistory calls in flight
  localStore,      \* localStorage["chat_" + documentId]
  chatToasts,      \* the toasts shown by the chat page, with how often
  chatMounted,
  sends,           \* sendMessage calls so far
  reloads,         \* times the auth user object was replaced
  written,         \* history: the last payload handed to a history store
  merged,          \* history: the last history list merged into the transcript
  loaded           \* history: how the last finished load() went

uploadVars == <<files, uploading, activeJobId, upl, polls, jobs, nextJob, now,
                mounted, toasts, navigations, pollLog, uploadCalls, enqLog>>
validateVars == <<vFile, vResult>>
dedupVars == <<dIn, dOut>>
riskVars == <<rScore, rOut>>
rerunVars == <<stale, reruns>>
textVars == <<tContent, tOut>>
statsVars == <<sDocs, sOut>>
switchVars == <<earlier, otherStore, switches>>
chatVars == <<documentId, messages, isLoading, rendered, loadingInitial, header,
              suggestedQuestions, loads, sendReq, saveTimer, saveReqs,
              localStore, chatToasts, chatMounted, sends, reloads,
              written, merged, loaded>>
notPageVars == <<validateVars, dedupVars, riskVars, textVars, statsVars, switchVars, chatVars>>
notUploadVars == <<rerunVars, notPageVars>>
notValidateVars == <<uploadVars, rerunVars, dedupVars, riskVars, chatVars, textVars, statsVars, switchVars>>
notDedupVars == <<uploadVars, rerunVars, validateVars, riskVars, chatVars, textVars, statsVars, switchVars>>
notRiskVars == <<uploadVars, rerunVars, validateVars, dedupVars, chatVars, textVars, statsVars, switchVars>>
notChatVars == <<uploadVars, rerunVars, validateVars, dedupVars, riskVars, textVars, statsVars, switchVars>>
notTextVars == <<uploadVars, rerunVars, validateVars, dedupVars, riskVars, chatVars, statsVars, switchVars>>
notStatsVars == <<uploadVars, rerunVars, validateVars, dedupVars, riskVars, chatVars, textVars, switchVars>>
notSwitchVars == <<uploadVars, rerunVars, validateVars, dedupVars, riskVars, textVars, statsVars>>
vars == <<uploadVars, rerunVars, validateVars, dedupVars, riskVars, textVars, statsVars, switchVars, chatVars>>

\* ------------------------------------------------------------- the inputs
PdfName == <<"a", ".", "p", "d", "f">>
UploadNames == {PdfName}
UploadSizes == {1, MAX_FILE_SIZE + 1}
UploadFiles == [name : UploadNames, size : UploadSizes]

Batches == UNION { [1..n -> UploadFiles] : n \in 1..MaxFiles }

ErrorMessages == {"", "Server busy"}      \* Error.message of a rejection
JobIds == 1..MaxJobs

\* ------------------------------------------------------ the analysis service
\* GET /job/{id} answers {status, progress, result, error}. A job moves
\* pending -> processing -> completed | failed and then stays; jobs[j] is the
\* last answer the page read for job j, and the next one is not behind it.
\* The poll takes the same branch for "pending" and "processing" (lines 65-69
\* and 96), so the answers drawn for a running job are "processing" ones.
NoSnapshot == [status |-> "none", progress |-> NoProgress, doc |-> NoDoc, error |-> Null]

JobProgress(status) ==
  CASE status = "processing" -> 55
    [] status = "completed" -> 100
    [] OTHER -> NoProgress

DocOf(j) == 100 + j     \* result.document_id of job j

ServiceErrors == {Null, "OCR failed"}     \* error of a failed job

Answer(status, doc, error) ==
  [status |-> status, progress |-> JobProgress(status), doc |-> doc, error |-> error]

AllResponses(j) ==
  {Answer("processing", NoDoc, Null)}
    \cup {Answer("completed", d, Null) : d \in {NoDoc, DocOf(j)}}
    \cup {Answer("failed", NoDoc, e) : e \in ServiceErrors}

JobResponses(j) ==
  IF jobs[j].status \in {"none", "processing"} THEN AllResponses(j) ELSE {jobs[j]}

\* ------------------------------------------------------------------ tasks
\* `${Date.now()}-${file.name}`
TaskId(t, name) == <<t, "-">> \o name

\* variant: every file is enqueued as pending, valid or not
InitialStatus_AlwaysPending(error) == "pending"

InitialStatus(error) == IF error # Null THEN "error" ELSE "pending"

NewTask(file, t) ==
  [id |-> TaskId(t, file.name), file |-> file, progress |-> 0,
   status |-> InitialStatus(validateFile(file)), error |-> validateFile(file),
   jobId |-> NoJobId, jobStatus |-> NoSnapshot]

pendingCount == Cardinality({i \in 1..Len(files) : files[i].status = "pending"})
hasErrors == \E i \in 1..Len(files) : files[i].status = "error"

\* pendingFiles[0]: the index of the first pending task
FirstPending ==
  CHOOSE i \in 1..Len(files) :
    /\ files[i].status = "pending"
    /\ \A k \in 1..(i - 1) : files[k].status # "pending"

\* ----------------------------------------------------------- poll effect
IdlePoll == [pc |-> "idle", cancelled |-> FALSE, delay |-> 0]

Req == [kind |-> "req", status |-> "none", doc |-> NoDoc, live |-> TRUE]
Rej(live) == [kind |-> "rej", status |-> "none", doc |-> NoDoc, live |-> live]
Resp(r, live) ==
  IF live THEN [kind |-> "resp", status |-> r.status, doc |-> r.doc, live |-> TRUE]
  ELSE [kind |-> "resp", status |-> "none", doc |-> NoDoc, live |-> FALSE]

\* the cleanup of the effect run for job `old`: isCancelled = true
Cleanup(ps, old) ==
  IF old = NoJob THEN ps ELSE [ps EXCEPT ![old].cancelled = TRUE]

\* status mirror of the poll, lines 58-74
MirrorStatus(s) ==
  IF s = "completed" THEN "complete"
  ELSE IF s = "failed" THEN "error"
  ELSE "processing"

MirrorTask(f, r) ==
  [f EXCEPT !.progress = IF r.progress # NoProgress THEN r.progress ELSE f.progress,
            !.status = MirrorStatus(r.status),
            !.jobStatus = r]

\* --------------------------------------------------------------- actions
NoUpload == [busy |-> FALSE, idx |-> 0]

UploadInit ==
  /\ files = <<>>
  /\ uploading = FALSE
  /\ activeJobId = NoJob
  /\ upl = NoUpload
  /\ polls = [j \in JobIds |-> IdlePoll]
  /\ jobs = [j \in JobIds |-> NoSnapshot]
  /\ nextJob = 1
  /\ now = 0
  /\ mounted = TRUE
  /\ toasts = {}
  /\ navigations = <<>>
  /\ pollLog = [j \in JobIds |-> <<>>]
  /\ uploadCalls = <<>>
  /\ enqLog = <<>>

\* addFiles (handleDrop / handleFileSelect), lines 127-140
AddFiles(batch) ==
  /\ mounted
  /\ Len(files) + Len(batch) <= MaxFiles
  /\ files' = files \o [i \in 1..Len(batch) |-> NewTask(batch[i], now)]
  /\ enqLog' = enqLog \o [i \in 1..Len(batch) |-> NewTask(batch[i], now)]
  /\ UNCHANGED <<uploading, activeJobId, upl, polls, jobs, nextJob, now, mounted,
                 toasts, navigations, pollLog, uploadCalls>>
  /\ UNCHANGED notUploadVars

\* the clock moves to its next millisecond. Only the equality of two readings
\* is ever observed (in task ids), so a millisecond in which no task was
\* created is skipped.
Tick ==
  /\ mounted /\ Len(files) < MaxFiles
  /\ \E i \in 1..Len(files) : files[i].id[1] = now
  /\ now' = now + 1
  /\ UNCHANGED <<files, uploading, activeJobId, upl, polls, jobs, nextJob, mounted,
                 toasts, navigations, pollLog, uploadCalls, enqLog>>
  /\ UNCHANGED notUploadVars

\* handleUpload up to its await, lines 203-218 and 170-177. The button that
\* calls it is disabled unless a task is pending, none is in error and no
\* upload is in progress (line 425), so the empty-queue branch is not taken.
HandleUpload ==
  /\ mounted
  /\ pendingCount > 0 /\ ~hasErrors /\ ~uploading
  /\ nextJob <= MaxJobs
  /\ LET idx == FirstPending
         task == files[idx]
     IN /\ uploading' = TRUE
        /\ files' = [i \in 1..Len(files) |->
                       IF files[i].id = task.id
                       THEN [files[i] EXCEPT !.status = "uploading", !.progress = 0]
                       ELSE files[i]]
        /\ upl' = [busy |-> TRUE, idx |-> idx]
        /\ uploadCalls' = Append(uploadCalls,
                                 [idx |-> idx, file |-> task.file, status |-> task.status,
                                  outcome |-> "pending", msg |-> Null])
  /\ UNCHANGED <<activeJobId, polls, jobs, nextJob, now, mounted, toasts,
                 navigations, pollLog, enqLog>>
  /\ UNCHANGED notUploadVars

\* the new value of activeJobId reaches the poll effect (lines 47-114): the
\* previous run is cleaned up and, for a job, poll() issues its first request
RunEffect(ps, old, new) ==
  IF new = old THEN ps
  ELSE IF new = NoJob THEN Cleanup(ps, old)
  ELSE [Cleanup(ps, old) EXCEPT ![new] = [pc |-> "awaiting", cancelled |-> FALSE, delay |-> 0]]

LogEffect(lg, old, new) ==
  IF new = old \/ new = NoJob THEN lg ELSE [lg EXCEPT ![new] = Append(@, Req)]

UploadedTask(f, job) ==
  [f EXCEPT !.status = "processing", !.progress = 5, !.jobId = job]

SetOutcome(calls, outcome, msg) ==
  [calls EXCEPT ![Len(calls)].outcome = outcome, ![Len(calls)].msg = msg]

\* uploadDocument resolves: lines 179-192, then 220-224 and 232
UploadResolve ==
  /\ upl.busy
  /\ LET job == nextJob
         id == files[upl.idx].id
     IN /\ nextJob' = nextJob + 1
        /\ toasts' = toasts \cup
             {[title |-> "Upload successful",
               description |-> "Document uploaded. AI analysis has started and may take a moment."]}
        /\ uploadCalls' = SetOutcome(uploadCalls, "resolved", Null)
        /\ upl' = NoUpload
        /\ IF mounted
           THEN /\ files' = [i \in 1..Len(files) |->
                               IF files[i].id = id THEN UploadedTask(files[i], job)
                               ELSE files[i]]
                /\ activeJobId' = job
                /\ polls' = RunEffect(polls, activeJobId, job)
                /\ pollLog' = LogEffect(pollLog, activeJobId, job)
                /\ uploading' = FALSE
           ELSE UNCHANGED <<files, activeJobId, polls, pollLog, uploading>>
  /\ UNCHANGED <<jobs, now, mounted, navigations, enqLog>>
  /\ UNCHANGED notUploadVars

OrElse(msg, fallback) == IF msg # "" /\ msg # Null THEN msg ELSE fallback

\* variant: the rejection leaves the task as it was
FailedTask_Untouched(f, msg) == f

FailedTask(f, msg) ==
  [f EXCEPT !.status = "error", !.error = OrElse(msg, "Upload failed")]

\* uploadDocument rejects: lines 193-199, then 225-232
UploadReject(msg) ==
  /\ upl.busy
  /\ LET id == files[upl.idx].id
     IN /\ toasts' = toasts \cup {[title |-> "Upload error",
                                     description |-> OrElse(msg, "An error occurred during upload")]}
        /\ uploadCalls' = SetOutcome(uploadCalls, "rejected", msg)
        /\ upl' = NoUpload
        /\ IF mounted
           THEN /\ files' = [i \in 1..Len(files) |->
                               IF files[i].id = id THEN FailedTask(files[i], msg)
                               ELSE files[i]]
                /\ uploading' = FALSE
           ELSE UNCHANGED <<files, uploading>>
  /\ UNCHANGED <<activeJobId, polls, jobs, nextJob, now, mounted, navigations,
                 pollLog, enqLog>>
  /\ UNCHANGED notUploadVars

PollErrors == {"Failed to fetch"}           \* Error.message of a rejected poll

\* variant: a completed job with a document id is polled again
PollOutcome_NoStop(r) ==
  IF r.status = "failed" THEN "failed" ELSE "reschedule"

\* what the poll does after a response, by its three resolutions
PollOutcome(r) ==
  IF r.status = "completed" /\ r.doc # NoDoc THEN "navigate"
  ELSE IF r.status = "failed" THEN "failed"
  ELSE "reschedule"

ChatPath(doc) == <<"/chat/", doc>>

\* variant: the poll never looks at isCancelled
Live_Always(p) == TRUE

\* `if (isCancelled) return` after the await, lines 56 and 98
Live(p) == ~p.cancelled

\* getJobStatus resolves in the poll of job j, lines 54-96
PollResolve(j, r) ==
  /\ polls[j].pc = "awaiting"
  /\ LET live == Live(polls[j])
     IN /\ pollLog' = [pollLog EXCEPT ![j] = Append(@, Resp(r, live))]
        /\ IF ~live
           THEN \* line 56: the answer is dropped unread
                /\ polls' = [polls EXCEPT ![j].pc = "done"]
                /\ UNCHANGED <<files, activeJobId, toasts, navigations, mounted, jobs>>
           ELSE /\ jobs' = [jobs EXCEPT ![j] = r]
                /\ files' = [i \in 1..Len(files) |->
                               IF files[i].jobId = j THEN MirrorTask(files[i], r)
                               ELSE files[i]]
                /\ CASE PollOutcome(r) = "navigate" ->
                          /\ toasts' = toasts \cup {[title |-> "Analysis complete",
                                  description |-> "Opening interactive analysis and chat."]}
                          /\ activeJobId' = NoJob
                          /\ navigations' = Append(navigations, ChatPath(r.doc))
                          /\ mounted' = FALSE
                          /\ polls' = [Cleanup(polls, j) EXCEPT ![j].pc = "done"]
                     [] PollOutcome(r) = "failed" ->
                          /\ toasts' = toasts \cup {[title |-> "Analysis failed",
                                  description |-> OrElse(r.error, "An error occurred during analysis.")]}
                          /\ activeJobId' = NoJob
                          /\ polls' = [Cleanup(polls, j) EXCEPT ![j].pc = "done"]
                          /\ UNCHANGED <<navigations, mounted>>
                     [] OTHER ->
                          /\ polls' = [polls EXCEPT ![j].pc = "timer", ![j].delay = POLL_DELAY_OK]
                          /\ UNCHANGED <<activeJobId, toasts, navigations, mounted>>
  /\ UNCHANGED <<uploading, upl, nextJob, now, uploadCalls, enqLog>>
  /\ UNCHANGED notUploadVars

\* variant: a rejected request ends the poll
AfterReject_GiveUp(p) == [p EXCEPT !.pc = "done"]

\* setTimeout(poll, 4000) in the catch block, line 105
AfterReject(p) == [p EXCEPT !.pc = "timer", !.delay = POLL_DELAY_ERR]

\* getJobStatus rejects in the poll of job j, lines 97-106
PollReject(j, msg) ==
  /\ polls[j].pc = "awaiting"
  /\ LET live == Live(polls[j])
     IN /\ pollLog' = [pollLog EXCEPT ![j] = Append(@, Rej(live))]
        /\ IF ~live
           THEN /\ polls' = [polls EXCEPT ![j].pc = "done"]
                /\ UNCHANGED toasts
           ELSE /\ toasts' = toasts \cup {[title |-> "Error",
                        description |-> OrElse(msg, "Failed to fetch analysis status. Retrying...")]}
                /\ polls' = [polls EXCEPT ![j] = AfterReject(@)]
  /\ UNCHANGED <<files, uploading, activeJobId, upl, jobs, nextJob, now, mounted,
                 navigations, uploadCalls, enqLog>>
  /\ UNCHANGED notUploadVars

Requests(lg) == Cardinality({i \in 1..Len(lg) : lg[i].kind = "req"})

\* the requests issued by timers: every request of a job but its first
RECURSIVE TimerRequests(_)
TimerRequests(js) ==
  IF js = {} THEN 0
  ELSE LET j == CHOOSE x \in js : TRUE
           n == Requests(pollLog[j])
       IN (IF n > 0 THEN n - 1 ELSE 0) + TimerRequests(js \ {j})

\* a timer set by setTimeout(poll, delay) fires: poll() issues the next request
PollTimerFire(j) ==
  /\ polls[j].pc = "timer"
  /\ TimerRequests(JobIds) < MaxPolls
  /\ polls' = [polls EXCEPT ![j].pc = "awaiting"]
  /\ pollLog' = [pollLog EXCEPT ![j] = Append(@, Req)]
  /\ UNCHANGED <<files, uploading, activeJobId, upl, jobs, nextJob, now, mounted,
                 toasts, navigations, uploadCalls, enqLog>>
  /\ UNCHANGED notUploadVars

\* files.find(f => f.jobId === activeJobId) || files[0], line 238
activeFile ==
  IF \E i \in 1..Len(files) : files[i].jobId = activeJobId
  THEN files[CHOOSE i \in 1..Len(files) :
               /\ files[i].jobId = activeJobId
               /\ \A k \in 1..(i - 1) : files[k].jobId # activeJobId]
  ELSE files[1]

\* the "View Analysis & Chat" button, lines 398-408: shown for a complete
\* task with a job id, it navigates to /chat/<job id>
ViewAnalysis ==
  /\ mounted
  /\ files # <<>>
  /\ activeFile.status = "complete" /\ activeFile.jobId # NoJobId
  /\ navigations' = Append(navigations, ChatPath(activeFile.jobId))
  /\ mounted' = FALSE
  /\ polls' = Cleanup(polls, activeJobId)
  /\ UNCHANGED <<files, uploading, activeJobId, upl, jobs, nextJob, now, toasts,
                 pollLog, uploadCalls, enqLog>>
  /\ UNCHANGED notUploadVars

\* the user leaves the page (Cancel, navigate(-1)): the effect is cleaned up
Unmount ==
  /\ mounted
  /\ mounted' = FALSE
  /\ polls' = Cleanup(polls, activeJobId)
  /\ UNCHANGED <<files, uploading, activeJobId, upl, jobs, nextJob, now, toasts,
                 navigations, pollLog, uploadCalls, enqLog>>
  /\ UNCHANGED notUploadVars

\* ------------------------------------ the poll effect run again, same job
\* The effect depends on [activeJobId, navigate, toast] (line 114): when
\* useNavigate or useToast hands the page a new function, the cleanup of the
\* running effect sets its isCancelled and the effect runs again for the same
\* activeJobId, with a new closure whose poll() asks at once (line 109).
NoStale == [timer |-> 0, awaiting |-> 0]

NoStaleRuns == stale = [j \in JobIds |-> NoStale] /\ reruns = 0

\* what the cleanup leaves behind of the closure p: its timer is not cleared,
\* its request is not aborted
LeftBehind(st, p) ==
  [timer |-> st.timer + (IF p.pc = "timer" THEN 1 ELSE 0),
   awaiting |-> st.awaiting + (IF p.pc = "awaiting" THEN 1 ELSE 0)]

DepsChanged ==
  /\ mounted
  /\ activeJobId # NoJob
  /\ reruns < MaxReruns
  /\ reruns' = reruns + 1
  /\ stale' = [stale EXCEPT ![activeJobId] = LeftBehind(@, polls[activeJobId])]
  /\ polls' = [polls EXCEPT ![activeJobId] = [pc |-> "awaiting", cancelled |-> FALSE, delay |-> 0]]
  /\ pollLog' = [pollLog EXCEPT ![activeJobId] = Append(@, Req)]
  /\ UNCHANGED <<files, uploading, activeJobId, upl, jobs, nextJob, now, mounted,
                 toasts, navigations, uploadCalls, enqLog>>
  /\ UNCHANGED notPageVars

\* the timer of an earlier run fires: poll() asks before it looks at
\* isCancelled (line 54)
StaleTimerFire(j) ==
  /\ stale[j].timer > 0
  /\ stale' = [stale EXCEPT ![j].timer = @ - 1, ![j].awaiting = @ + 1]
  /\ pollLog' = [pollLog EXCEPT ![j] = Append(@, Req)]
  /\ UNCHANGED <<files, uploading, activeJobId, upl, polls, jobs, nextJob, now,
                 mounted, toasts, navigations, uploadCalls, enqLog, reruns>>
  /\ UNCHANGED notPageVars

\* the request of an earlier run comes back and is dropped (lines 56, 98)
StaleReturn(j, rejected) ==
  /\ stale[j].awaiting > 0
  /\ stale' = [stale EXCEPT ![j].awaiting = @ - 1]
  /\ pollLog' = [pollLog EXCEPT ![j] =
                   Append(@, IF rejected THEN Rej(FALSE) ELSE Resp(NoSnapshot, FALSE))]
  /\ UNCHANGED <<files, uploading, activeJobId, upl, polls, jobs, nextJob, now,
                 mounted, toasts, navigations, uploadCalls, enqLog, reruns>>
  /\ UNCHANGED notPageVars

Next ==
  \/ \E batch \in Batches : AddFiles(batch)
  \/ Tick
  \/ HandleUpload
  \/ UploadResolve
  \/ \E msg \in ErrorMessages : UploadReject(msg)
  \/ \E j \in JobIds : \E r \in JobResponses(j) : PollResolve(j, r)
  \/ \E j \in JobIds, msg \in PollErrors : PollReject(j, msg)
  \/ \E j \in JobIds : PollTimerFire(j)
  \/ ViewAnalysis
  \/ Unmount

\* ===================================================================
\*  validateFile as a function of its input
\* ===================================================================
RECURSIVE Strings(_, _)
Strings(alphabet, n) ==
  IF n = 0 THEN {<<>>}
  ELSE LET shorter == Strings(alphabet, n - 1)
       IN shorter \cup {Append(w, c) : w \in shorter, c \in alphabet}

ValidateFiles ==
  [name : Strings(NameAlphabet, MaxNameLen),
   size : {0, MAX_FILE_SIZE, MAX_FILE_SIZE + 1}]

NoFile == [name |-> <<>>, size |-> 0]
ValidateIdle == vFile = NoFile /\ vResult = "idle"

ValidateInit == vFile \in ValidateFiles /\ vResult = "idle"

Validate ==
  /\ vResult = "idle"
  /\ vResult' = validateFile(vFile)
  /\ UNCHANGED vFile
  /\ UNCHANGED notValidateVars

\* ===================================================================
\*  Chat page: messages and deduplicateMessages
\* ===================================================================
Min(a, b) == IF a < b THEN a ELSE b

\* String.prototype.slice(0, n)
SliceTo(str, n) == SubSeq(str, 1, Min(n, Len(str)))

\* String.prototype.includes
includes(str, sub) ==
  \E i \in 1..(Len(str) - Len(sub) + 1) : SubSeq(str, i, i + Len(sub) - 1) = sub

\* String.prototype.trim, for blanks
RECURSIVE TrimLeft(_)
TrimLeft(str) ==
  IF str # <<>> /\ Head(str) = " " THEN TrimLeft(Tail(str)) ELSE str

RECURSIVE TrimRight(_)
TrimRight(str) ==
  IF str # <<>> /\ str[Len(str)] = " " THEN TrimRight(SubSeq(str, 1, Len(str) - 1)) ELSE str

trim(str) == TrimRight(TrimLeft(str))

RoleText(role) ==
  IF role = "user" THEN <<"u", "s", "e", "r">>
  ELSE <<"a", "s", "s", "i", "s", "t", "a", "n", "t">>

\* variant: the key holds the whole content
MessageKey_WholeContent(msg) == RoleText(msg.role) \o <<":", ":">> \o msg.content

\* `${msg.role}::${msg.content.slice(0, 100)}`
MessageKey(msg) == RoleText(msg.role) \o <<":", ":">> \o SliceTo(msg.content, KeyLength)

\* messages.filter with the `seen` map, lines 40-48
RECURSIVE DedupFrom(_, _, _)
DedupFrom(msgs, i, seen) ==
  IF i > Len(msgs) THEN <<>>
  ELSE IF MessageKey(msgs[i]) \in seen THEN DedupFrom(msgs, i + 1, seen)
  ELSE <<msgs[i]>> \o DedupFrom(msgs, i + 1, seen \cup {MessageKey(msgs[i])})

deduplicateMessages(msgs) == DedupFrom(msgs, 1, {})

Repeat(c, n) == [i \in 1..n |-> c]

\* contents that agree or differ before and after the 100th character
DedupContents ==
  { Repeat("a", 100),
    Repeat("a", 100) \o <<"b">>,
    Repeat("a", 100) \o <<"c">>,
    Repeat("a", 99) \o <<"b">>,
    <<"h", "i">>,
    <<>> }

DedupMessages == [role : {"user", "assistant"}, content : DedupContents]

DedupInputs ==
  UNION { [1..n -> DedupMessages] : n \in 0..MaxMsgs }

\* each message of an input gets its position as id
Numbered(ms) ==
  [i \in 1..Len(ms) |-> [id |-> i, role |-> ms[i].role, content |-> ms[i].content]]

NotRun == [done |-> FALSE, out |-> <<>>]

DedupIdle == dIn = <<>> /\ dOut = NotRun

DedupInit == dIn \in {Numbered(ms) : ms \in DedupInputs} /\ dOut = NotRun

Deduplicate ==
  /\ ~dOut.done
  /\ dOut' = [done |-> TRUE, out |-> deduplicateMessages(dIn)]
  /\ UNCHANGED dIn
  /\ UNCHANGED notDedupVars

\* ===================================================================
\*  Chat page: bootstrap load, sending, saving
\* ===================================================================
NoDocument == 0
Doc == 1
OtherDoc == 2
ChatDocs == {Doc, OtherDoc}

Marker ==
  <<"I", "'", "v", "e", " ", "a", "n", "a", "l", "y", "z", "e", "d", " ",
  "y", "o", "u", "r", " ", "c", "o", "n", "t", "r", "a", "c", "t">>

\* the analysis service's answers for a document
DocScore(d) == 70
ReportText(d) == <<"R", "e", "p", "o", "r", "t">>
SuggestionsFor(d) == IF d = NoDocument THEN "general" ELSE "document"

\* variant: a score of 70 already counts as high
RiskLevel_From70(score) ==
  IF score >= 70 THEN "high" ELSE IF score >= 40 THEN "medium" ELSE "low"

\* lines 123-128
RiskLevel(score) ==
  IF score > 70 THEN "high" ELSE IF score >= 40 THEN "medium" ELSE "low"

toUpperCase(level) ==
  CASE level = "high" -> <<"H", "I", "G", "H">>
    [] level = "medium" -> <<"M", "E", "D", "I", "U", "M">>
    [] OTHER -> <<"L", "O", "W">>

\* lines 336-343
riskBadgeColor(riskScore) ==
  IF riskScore = NoScore THEN "muted"
  ELSE IF riskScore > 70 THEN "red"
  ELSE IF riskScore >= 40 THEN "yellow"
  ELSE "emerald"

\* stats.ts: d.risk_score ?? 0
OrZero(score) == IF score = NoScore THEN 0 ELSE score

\* stats.ts lines 43-44: the filters of highRiskCount and safeCount
highRisk(score) == OrZero(score) > 70
safe(score) == OrZero(score) < 40

\* the three classifications of one score
RiskScores == {NoScore} \cup 0..MaxScore
NotClassified == [done |-> FALSE, level |-> "", badge |-> "", highRisk |-> FALSE, safe |-> FALSE]
RiskIdle == rScore = NoScore /\ rOut = NotClassified
RiskInit == rScore \in RiskScores /\ rOut = NotClassified

Classify ==
  /\ ~rOut.done
  /\ rOut' = [done |-> TRUE,
              level |-> IF rScore = NoScore THEN "" ELSE RiskLevel(rScore),
              badge |-> riskBadgeColor(rScore),
              highRisk |-> highRisk(rScore),
              safe |-> safe(rScore)]
  /\ UNCHANGED rScore
  /\ UNCHANGED notRiskVars

\* ------------------------------------------------ RichText (Chat.tsx)
\* String.prototype.startsWith
startsWith(str, prefix) ==
  Len(str) >= Len(prefix) /\ SubSeq(str, 1, Len(prefix)) = prefix

\* Array.prototype.join
RECURSIVE join(_, _)
join(parts, sep) ==
  IF parts = <<>> THEN <<>>
  ELSE IF Len(parts) = 1 THEN parts[1]
  ELSE parts[1] \o <<sep>> \o join(Tail(parts), sep)

\* the characters U+0060 and U+000A, and the three backticks of a fence
Backtick == "backtick"
NewLine == "newline"
Fence == <<Backtick, Backtick, Backtick>>

\* the elements RichText pushes: the spacer of a blank line, the <pre> of a
\* code block with its joined lines, and the one element each other line
\* gets (heading, rule, bullet, numbered item or paragraph)
Spacer == [kind |-> "spacer", text |-> <<>>]
CodeBlock(buffer) == [kind |-> "code", text |-> join(buffer, NewLine)]
LineElement(line) == [kind |-> "line", text |-> line]

\* line 595: the test of a fence line
IsFence(line) == startsWith(trim(line), Fence)

\* flushCode, with the push of its result: nothing for an empty buffer
flushCode(st) ==
  [st EXCEPT !.elements = IF st.codeBuffer = <<>> THEN @
                          ELSE Append(@, CodeBlock(st.codeBuffer)),
             !.codeBuffer = <<>>]

RenderStart == [elements |-> <<>>, codeBuffer |-> <<>>, inCode |-> FALSE,
                consecutiveEmptyLines |-> 0]

\* the body of lines.forEach
RenderLine(line, st) ==
  IF IsFence(line) THEN
    IF st.inCode THEN [flushCode(st) EXCEPT !.inCode = FALSE]
    ELSE [st EXCEPT !.inCode = TRUE]
  ELSE IF st.inCode THEN [st EXCEPT !.codeBuffer = Append(@, line)]
  ELSE IF trim(line) = <<>> THEN
    [st EXCEPT !.consecutiveEmptyLines = @ + 1,
               !.elements = IF st.consecutiveEmptyLines + 1 = 1
                            THEN Append(@, Spacer) ELSE @]
  ELSE [st EXCEPT !.consecutiveEmptyLines = 0,
                  !.elements = Append(@, LineElement(line))]

RECURSIVE RenderFrom(_, _, _)
RenderFrom(lines, i, st) ==
  IF i > Len(lines) THEN st
  ELSE RenderFrom(lines, i + 1, RenderLine(lines[i], st))

RichText(content) ==
  LET st == RenderFrom(split(content, NewLine), 1, RenderStart)
  IN IF st.inCode /\ st.codeBuffer # <<>> THEN flushCode(st).elements
     ELSE st.elements

\* the contents rendered: up to MaxLines lines, each blank, text or a fence
\* with or without something around it
TextLines == {<<>>, <<" ">>, <<"a">>, Fence, <<" ">> \o Fence, Fence \o <<"a">>}
Contents ==
  {join(ls, NewLine) : ls \in UNION {[1..n -> TextLines] : n \in 1..MaxLines}}
NotRendered == [done |-> FALSE, elements |-> <<>>]
TextIdle == tContent = <<>> /\ tOut = NotRendered
TextInit == tContent \in Contents /\ tOut = NotRendered

RenderText ==
  /\ ~tOut.done
  /\ tOut' = [done |-> TRUE, elements |-> RichText(tContent)]
  /\ UNCHANGED tContent
  /\ UNCHANGED notTextVars

\* ------------------------------------------- getDashboardStats (stats.ts)
\* Math.round of the quotient of two naturals: halves go up
RoundDiv(total, n) == (2 * total + n) \div (2 * n)

\* Array.prototype.filter with the tests of lines 19, 43, 44 and 45
IsCompleted(d) == d.status = "completed"
IsHighRisk(d) == highRisk(d.risk_score)
IsSafe(d) == safe(d.risk_score)
NotCompleted(d) == d.status # "completed"

\* lines 22-31: the two sums over the completed documents
RECURSIVE TotalRisk(_)
TotalRisk(docs) ==
  IF docs = <<>> THEN 0 ELSE OrZero(Head(docs).risk_score) + TotalRisk(Tail(docs))

RECURSIVE TotalSafe(_)
TotalSafe(docs) ==
  IF docs = <<>> THEN 0
  ELSE (100 - OrZero(Head(docs).risk_score)) + TotalSafe(Tail(docs))

getDashboardStats(docs) ==
  LET completedDocs == SelectSeq(docs, IsCompleted)
      n == Len(completedDocs)
  IN [totalDocuments |-> Len(docs),
      highRiskCount |-> Len(SelectSeq(completedDocs, IsHighRisk)),
      safeCount |-> Len(SelectSeq(completedDocs, IsSafe)),
      analyzingCount |-> Len(SelectSeq(docs, NotCompleted)),
      averageRiskPercentage |-> IF n > 0 THEN RoundDiv(TotalRisk(completedDocs), n) ELSE 0,
      averageSafePercentage |-> IF n > 0 THEN RoundDiv(TotalSafe(completedDocs), n) ELSE 0]

\* the documents getDocuments returns: completed ones with any score or none,
\* and unfinished ones
StatsDocs ==
  [status : {"completed"}, risk_score : RiskScores]
    \cup [status : {"processing", "failed"}, risk_score : {NoScore}]
StatsInputs == UNION {[1..n -> StatsDocs] : n \in 0..MaxDocs}
NoStats == [done |-> FALSE]
StatsIdle == sDocs = <<>> /\ sOut = NoStats
StatsInit == sDocs \in StatsInputs /\ sOut = NoStats

ComputeStats ==
  /\ ~sOut.done
  /\ sOut' = [done |-> TRUE, stats |-> getDashboardStats(sDocs)]
  /\ UNCHANGED sDocs
  /\ UNCHANGED notStatsVars

\* the template of line 130, with its interpolated risk tier
SummaryText(d) == Marker \o <<" ", "*", "*">> \o toUpperCase(RiskLevel(DocScore(d))) \o <<"*", "*">>

MsgId(kind, n, d) == [kind |-> kind, n |-> n, doc |-> d]

Message(id, role, content, isReport) ==
  [id |-> id, role |-> role, content |-> content, isReport |-> isReport]

\* lines 111-137
BaseMessages(d) ==
  << Message(MsgId("report", 0, d), "assistant", ReportText(d), TRUE),
     Message(MsgId("summary", 0, d), "assistant", SummaryText(d), FALSE) >>

\* the filter of lines 147: stored items carry role and content only
NotSummary(item) == ~includes(item.content, Marker)

\* variant: only the report is filtered out
NotSynthetic_ReportOnly(m) == ~m.isReport

\* the filter of lines 168, 205-208 and 221-224
NotSynthetic(m) == ~m.isReport /\ ~includes(m.content, Marker)

\* lines 146-153
ConvertHistory(items, d) ==
  LET kept == SelectSeq(items, NotSummary)
  IN [i \in 1..Len(kept) |->
        Message(MsgId("chat", i - 1, d), kept[i].role, kept[i].content, FALSE)]

\* lines 166-172
ConvertLocal(items, d) ==
  LET kept == SelectSeq(items, NotSynthetic)
  IN [i \in 1..Len(kept) |-> [kept[i] EXCEPT !.id = MsgId("local", i - 1, d)]]

\* lines 204-212
HistoryPayload(msgs) ==
  LET kept == SelectSeq(msgs, NotSynthetic)
  IN [i \in 1..Len(kept) |-> [role |-> kept[i].role, content |-> kept[i].content]]

\* variant: the fallback stores the whole transcript
LocalPayload_Whole(msgs) == msgs

\* lines 220-225
LocalPayload(msgs) == SelectSeq(msgs, NotSynthetic)

\* --------------------------------------------------- the chat inputs
Hi == <<"h", "i">>

HistoryItem(role, content) == [role |-> role, content |-> content]

\* what getChatHistory can resolve with: nothing, or a stored payload of a
\* summary and a true turn
HistoryAnswers ==
  { <<>>,
    <<HistoryItem("assistant", SummaryText(Doc)), HistoryItem("user", Hi)>> }

\* localStorage.getItem: null, or a text that JSON.parse accepts or not.
\* JSON.stringify leaves out undefined fields, which a message shows as
\* isReport = FALSE
NoStored == [present |-> FALSE, valid |-> FALSE, items |-> <<>>]
Unparsable == [present |-> TRUE, valid |-> FALSE, items |-> <<>>]
stringify(items) == [present |-> TRUE, valid |-> TRUE, items |-> items]

LegacyStored ==
  stringify(BaseMessages(Doc) \o <<Message(MsgId("old", 0, Doc), "user", Hi, FALSE)>>)

StoredValues == {NoStored, Unparsable, LegacyStored}

SendTexts == { <<" ">>, <<" ", "h", "i">>, Marker }
Replies == { <<"o", "k">> }
LoadErrors == {""}
SendErrors == { [isError |-> TRUE, message |-> "Request failed"],
                [isError |-> FALSE, message |-> ""] }

\* ---------------------------------------------------- the chat state
NoHeader == [file_name |-> "", risk_score |-> NoScore]
FileName(d) == IF d = Doc THEN "contract.pdf" ELSE "other.pdf"
Details(d) == [file_name |-> FileName(d), risk_score |-> DocScore(d)]

NoLoads == [fetch |-> 0, history |-> 0, suggest |-> 0]
NoSend == <<>>
NoTimer == [armed |-> FALSE, delay |-> 0, messages |-> <<>>]
NoWrite == [store |-> "none", payload |-> <<>>]
NoMerge == [from |-> "none", source |-> <<>>, list |-> <<>>]

NoEarlier == [fetch |-> 0, history |-> 0]
NoSwitches ==
  /\ earlier = [d \in ChatDocs |-> NoEarlier]
  /\ otherStore = NoStored
  /\ switches = 0

\* the load effect, lines 78-195: what one run starts
LoadEffect(ls, d) ==
  IF d = NoDocument THEN [ls EXCEPT !.suggest = @ + 1]
  ELSE [ls EXCEPT !.fetch = @ + 1]

\* the save effect, lines 198-232: cleanup clears the timer, the run arms one
SaveEffect(d, msgs) ==
  IF d # NoDocument /\ Len(msgs) > 2
  THEN [armed |-> TRUE, delay |-> SAVE_DELAY, messages |-> msgs]
  ELSE NoTimer

ChatIdle ==
  /\ documentId = NoDocument
  /\ messages = <<>>
  /\ isLoading = FALSE
  /\ rendered = FALSE
  /\ loadingInitial = TRUE
  /\ header = NoHeader
  /\ suggestedQuestions = "none"
  /\ loads = NoLoads
  /\ sendReq = NoSend
  /\ saveTimer = NoTimer
  /\ saveReqs = {}
  /\ localStore = NoStored
  /\ chatToasts = EmptyBag
  /\ chatMounted = FALSE
  /\ sends = 0
  /\ reloads = 0
  /\ written = NoWrite
  /\ merged = NoMerge
  /\ loaded = "none"

\* the page after its first render and effects
ChatInit ==
  /\ \/ documentId = NoDocument /\ localStore = NoStored
     \/ documentId = Doc /\ localStore \in StoredValues
  /\ messages = <<>>
  /\ isLoading = FALSE
  /\ rendered = FALSE
  /\ loadingInitial = (documentId # NoDocument)
  /\ header = NoHeader
  /\ suggestedQuestions = "none"
  /\ loads = LoadEffect(NoLoads, documentId)
  /\ sendReq = NoSend
  /\ saveTimer = NoTimer
  /\ saveReqs = {}
  /\ chatToasts = EmptyBag
  /\ chatMounted = TRUE
  /\ sends = 0
  /\ reloads = 0
  /\ written = NoWrite
  /\ merged = NoMerge
  /\ loaded = "none"

\* a state setter called on an unmounted component does nothing
SetState(new, old) == IF chatMounted THEN new ELSE old

\* setMessages, with the run of the save effect that follows it
SetMessages(new) ==
  /\ messages' = SetState(new, messages)
  /\ saveTimer' = SetState(SaveEffect(documentId, new), saveTimer)

\* ------------------------------------------------- the load effect
\* Promise.all of line 99 resolves; lines 105-143
LoadFetchResolve ==
  /\ loads.fetch > 0
  /\ loads' = [loads EXCEPT !.fetch = @ - 1, !.history = @ + 1]
  /\ header' = SetState(Details(documentId), header)
  /\ suggestedQuestions' = SetState(SuggestionsFor(documentId), suggestedQuestions)
  /\ UNCHANGED <<documentId, messages, isLoading, rendered, loadingInitial, sendReq,
                 saveTimer, saveReqs, localStore, chatToasts, chatMounted,
                 sends, reloads, written, merged, loaded>>
  /\ UNCHANGED notChatVars

\* variant: the rejection still shows the two synthetic messages
LoadFetchReject_Partial(msg) ==
  /\ loads.fetch > 0
  /\ loads' = [loads EXCEPT !.fetch = @ - 1]
  /\ chatToasts' = chatToasts (+) SetToBag(
       {OrElse(msg, "Failed to load document details and initial analysis.")})
  /\ loadingInitial' = SetState(FALSE, loadingInitial)
  /\ loaded' = SetState("failed", loaded)
  /\ SetMessages(BaseMessages(documentId))
  /\ UNCHANGED <<documentId, isLoading, rendered, header, suggestedQuestions,
                 sendReq, saveReqs, localStore, chatMounted,
                 sends, reloads, written, merged>>
  /\ UNCHANGED notChatVars

\* Promise.all rejects; lines 181-191
LoadFetchReject(msg) ==
  /\ loads.fetch > 0
  /\ loads' = [loads EXCEPT !.fetch = @ - 1]
  /\ chatToasts' = chatToasts (+) SetToBag(
       {OrElse(msg, "Failed to load document details and initial analysis.")})
  /\ loadingInitial' = SetState(FALSE, loadingInitial)
  /\ loaded' = SetState("failed", loaded)
  /\ UNCHANGED <<documentId, messages, isLoading, rendered, header, suggestedQuestions,
                 sendReq, saveTimer, saveReqs, localStore, chatMounted,
                 sends, reloads, written, merged>>
  /\ UNCHANGED notChatVars

\* variant: an empty list from the lookup falls back to the local cache
HistoryResolve_EmptyReadsCache(items) ==
  /\ loads.history > 0
  /\ loads' = [loads EXCEPT !.history = @ - 1]
  /\ IF Len(items) > 0
     THEN LET convertedHistory == ConvertHistory(items, documentId)
          IN /\ SetMessages(BaseMessages(documentId) \o convertedHistory)
             /\ merged' = [from |-> "primary", source |-> items,
                           list |-> convertedHistory]
             /\ loaded' = SetState("history", loaded)
     ELSE LET localHistory == ConvertLocal(localStore.items, documentId)
          IN /\ SetMessages(BaseMessages(documentId) \o localHistory)
             /\ merged' = [from |-> "local", source |-> localStore.items,
                           list |-> localHistory]
             /\ loaded' = SetState("empty", loaded)
  /\ loadingInitial' = SetState(FALSE, loadingInitial)
  /\ UNCHANGED <<documentId, isLoading, rendered, header, suggestedQuestions,
                 sendReq, saveReqs, localStore, chatToasts, chatMounted, sends,
                 reloads, written>>
  /\ UNCHANGED notChatVars

\* getChatHistory resolves; lines 144-159, 189-191
HistoryResolve(items) ==
  /\ loads.history > 0
  /\ loads' = [loads EXCEPT !.history = @ - 1]
  /\ IF Len(items) > 0
     THEN LET convertedHistory == ConvertHistory(items, documentId)
          IN /\ SetMessages(BaseMessages(documentId) \o convertedHistory)
             /\ merged' = [from |-> "primary", source |-> items,
                           list |-> convertedHistory]
             /\ loaded' = SetState("history", loaded)
     ELSE /\ UNCHANGED <<messages, saveTimer, merged>>
          /\ loaded' = SetState("empty", loaded)
  /\ loadingInitial' = SetState(FALSE, loadingInitial)
  /\ UNCHANGED <<documentId, isLoading, rendered, header, suggestedQuestions, sendReq,
                 saveReqs, localStore, chatToasts, chatMounted, sends, reloads,
                 written>>
  /\ UNCHANGED notChatVars

\* getChatHistory rejects; lines 160-180, 189-191
HistoryReject ==
  /\ loads.history > 0
  /\ loads' = [loads EXCEPT !.history = @ - 1]
  /\ IF localStore.present /\ localStore.valid
     THEN LET localHistory == ConvertLocal(localStore.items, documentId)
          IN /\ SetMessages(BaseMessages(documentId) \o localHistory)
             /\ merged' = [from |-> "local", source |-> localStore.items,
                           list |-> localHistory]
             /\ loaded' = SetState("local", loaded)
     ELSE /\ SetMessages(BaseMessages(documentId))
          /\ UNCHANGED merged
          /\ loaded' = SetState("base", loaded)
  /\ loadingInitial' = SetState(FALSE, loadingInitial)
  /\ UNCHANGED <<documentId, isLoading, rendered, header, suggestedQuestions, sendReq,
                 saveReqs, localStore, chatToasts, chatMounted, sends, reloads,
                 written>>
  /\ UNCHANGED notChatVars

\* getChatbotSuggestions() of line 82 resolves
SuggestResolve ==
  /\ loads.suggest > 0
  /\ loads' = [loads EXCEPT !.suggest = @ - 1]
  /\ suggestedQuestions' = SetState(SuggestionsFor(NoDocument), suggestedQuestions)
  /\ UNCHANGED <<documentId, messages, isLoading, rendered, loadingInitial, header,
                 sendReq, saveTimer, saveReqs, localStore, chatToasts,
                 chatMounted, sends, reloads, written, merged, loaded>>
  /\ UNCHANGED notChatVars

\* getChatbotSuggestions() of line 82 rejects; lines 84-91
SuggestReject ==
  /\ loads.suggest > 0
  /\ loads' = [loads EXCEPT !.suggest = @ - 1]
  /\ suggestedQuestions' = SetState("fallback", suggestedQuestions)
  /\ UNCHANGED <<documentId, messages, isLoading, rendered, loadingInitial, header,
                 sendReq, saveTimer, saveReqs, localStore, chatToasts,
                 chatMounted, sends, reloads, written, merged, loaded>>
  /\ UNCHANGED notChatVars

\* the auth listener hands the page a new user object for the same account:
\* the load effect runs again (`user` is a dependency), the save effect does
\* not (`user?.id` is unchanged)
UserReplaced ==
  /\ chatMounted
  /\ sends + reloads + switches < MaxEvents
  /\ reloads' = reloads + 1
  /\ loads' = LoadEffect(loads, documentId)
  /\ loadingInitial' = (documentId # NoDocument)
  /\ UNCHANGED <<documentId, messages, isLoading, rendered, header, suggestedQuestions,
                 sendReq, saveTimer, saveReqs, localStore, chatToasts,
                 chatMounted, sends, written, merged, loaded>>
  /\ UNCHANGED notChatVars

\* React renders again after setIsLoading(true): sendMessage and the
\* `disabled` props of the next render see isLoading = true. (The render after
\* setIsLoading(false) is taken together with the setter: until that render
\* sendMessage does nothing but return early.)
Render ==
  /\ chatMounted
  /\ isLoading /\ ~rendered
  /\ rendered' = TRUE
  /\ UNCHANGED <<documentId, messages, isLoading, loadingInitial, header,
                 suggestedQuestions, loads, sendReq, saveTimer, saveReqs,
                 localStore, chatToasts, chatMounted, sends, reloads,
                 written, merged, loaded>>
  /\ UNCHANGED notChatVars

RemoveAt(seq, i) == SubSeq(seq, 1, i - 1) \o SubSeq(seq, i + 1, Len(seq))

\* ------------------------------------------------------ sendMessage
\* lines 234-265 / 275, up to the await. `isLoading` in the guard of line 235
\* is the constant of the render that created this sendMessage; the input and
\* the send button are disabled while isLoading or loadingInitial (lines 522,
\* 529), the suggested questions are hidden while loadingInitial (line 415)
SendMessage(text) ==
  /\ chatMounted
  /\ sends + reloads + switches < MaxEvents
  /\ ~loadingInitial
  /\ ~(trim(text) = <<>> \/ rendered)
  /\ LET userMessage == Message(MsgId("user", sends, documentId), "user",
                                trim(text), FALSE)
     IN /\ SetMessages(Append(messages, userMessage))
        /\ sendReq' = Append(sendReq, userMessage.content)
  /\ isLoading' = TRUE
  /\ sends' = sends + 1
  /\ UNCHANGED <<rendered, documentId, loadingInitial, header, suggestedQuestions, loads,
                 saveReqs, localStore, chatToasts, chatMounted, reloads,
                 written, merged, loaded>>
  /\ UNCHANGED notChatVars

\* lines 286-293, 301-303
SendResolve(reply) ==
  /\ \E i \in 1..Len(sendReq) : sendReq' = RemoveAt(sendReq, i)
  /\ SetMessages(Append(messages,
       Message(MsgId("assistant", sends, documentId), "assistant", reply, FALSE)))
  /\ isLoading' = SetState(FALSE, isLoading)
  /\ rendered' = SetState(FALSE, rendered)
  /\ UNCHANGED <<documentId, loadingInitial, header, suggestedQuestions, loads,
                 saveReqs, localStore, chatToasts, chatMounted, sends, reloads,
                 written, merged, loaded>>
  /\ UNCHANGED notChatVars

\* variant: the failure leaves the sending flag set
SendReject_StillLoading(error) ==
  /\ \E i \in 1..Len(sendReq) : sendReq' = RemoveAt(sendReq, i)
  /\ chatToasts' = chatToasts (+) SetToBag(
       {IF error.isError THEN error.message ELSE "Failed to send message"})
  /\ UNCHANGED <<documentId, messages, isLoading, rendered, loadingInitial,
                 header, suggestedQuestions, loads, saveTimer, saveReqs,
                 localStore, chatMounted, sends, reloads, written, merged,
                 loaded>>
  /\ UNCHANGED notChatVars

\* lines 294-303
SendReject(error) ==
  /\ \E i \in 1..Len(sendReq) : sendReq' = RemoveAt(sendReq, i)
  /\ chatToasts' = chatToasts (+) SetToBag(
       {IF error.isError THEN error.message ELSE "Failed to send message"})
  /\ isLoading' = SetState(FALSE, isLoading)
  /\ rendered' = SetState(FALSE, rendered)
  /\ UNCHANGED <<documentId, messages, loadingInitial, header,
                 suggestedQuestions, loads, saveTimer, saveReqs, localStore,
                 chatMounted, sends, reloads, written, merged, loaded>>
  /\ UNCHANGED notChatVars

\* ------------------------------------------------------- saveHistory
\* the timer of line 230 fires: lines 201-216. Nothing runs after a
\* saveChatHistory that resolves, so only a call that is going to reject is
\* kept as in flight
SaveTimerFire(rejects) ==
  /\ saveTimer.armed
  /\ rejects => Cardinality(saveReqs) < MaxFailing
  /\ saveTimer' = NoTimer
  /\ LET history == HistoryPayload(saveTimer.messages)
     IN IF Len(history) > 0
        THEN /\ saveReqs' = IF rejects THEN saveReqs \cup {saveTimer.messages}
                            ELSE saveReqs
             /\ written' = [store |-> "primary", payload |-> history]
        ELSE UNCHANGED <<saveReqs, written>>
  /\ UNCHANGED <<documentId, messages, isLoading, rendered, loadingInitial, header,
                 suggestedQuestions, loads, sendReq, localStore, chatToasts,
                 chatMounted, sends, reloads, merged, loaded>>
  /\ UNCHANGED notChatVars

\* saveChatHistory rejects; lines 217-226
SaveReject(msgs) ==
  /\ msgs \in saveReqs
  /\ saveReqs' = saveReqs \ {msgs}
  /\ localStore' = stringify(LocalPayload(msgs))
  /\ written' = [store |-> "local", payload |-> LocalPayload(msgs)]
  /\ UNCHANGED <<documentId, messages, isLoading, rendered, loadingInitial, header,
                 suggestedQuestions, loads, sendReq, saveTimer, chatToasts,
                 chatMounted, sends, reloads, merged, loaded>>
  /\ UNCHANGED notChatVars

\* the page is left: the cleanup of line 231 clears the timer
ChatUnmount ==
  /\ chatMounted
  /\ chatMounted' = FALSE
  /\ saveTimer' = NoTimer
  /\ UNCHANGED <<documentId, messages, isLoading, rendered, loadingInitial, header,
                 suggestedQuestions, loads, sendReq, saveReqs, localStore,
                 chatToasts, sends, reloads, written, merged, loaded>>
  /\ UNCHANGED notChatVars

\* ------------------------------------- the document id changes
\* the route /chat/:documentId hands the mounted view another id (a link or
\* the history buttons): the load effect and the save effect run again for
\* the new id (lines 195 and 232). The save effect's cleanup clears its
\* timer; the load effect has no cleanup, the load() calls of the old id
\* stay in flight. Taken when no failing save of the old id is in flight.
DocumentChanged(d) ==
  /\ chatMounted
  /\ documentId # NoDocument
  /\ d # documentId
  /\ switches < MaxSwitches
  /\ sends + reloads + switches < MaxEvents
  /\ saveReqs = {}
  /\ switches' = switches + 1
  /\ documentId' = d
  /\ earlier' = [earlier EXCEPT ![documentId] =
                   [fetch |-> @.fetch + loads.fetch,
                    history |-> @.history + loads.history]]
  /\ loads' = LoadEffect([loads EXCEPT !.fetch = 0, !.history = 0], d)
  /\ loadingInitial' = TRUE
  /\ saveTimer' = SaveEffect(d, messages)
  /\ localStore' = otherStore
  /\ otherStore' = localStore
  /\ UNCHANGED <<messages, isLoading, rendered, header, suggestedQuestions,
                 sendReq, saveReqs, chatToasts, chatMounted, sends, reloads,
                 written, merged, loaded>>
  /\ UNCHANGED notSwitchVars

\* localStorage["chat_" + d]
StoreOf(d) == IF d = documentId THEN localStore ELSE otherStore

\* a load() of before the change: Promise.all resolves; lines 105-143 with
\* the documentId of its closure
EarlierFetchResolve(d) ==
  /\ earlier[d].fetch > 0
  /\ earlier' = [earlier EXCEPT ![d] = [fetch |-> @.fetch - 1, history |-> @.history + 1]]
  /\ header' = SetState(Details(d), header)
  /\ suggestedQuestions' = SetState(SuggestionsFor(d), suggestedQuestions)
  /\ UNCHANGED <<otherStore, switches>>
  /\ UNCHANGED <<documentId, messages, isLoading, rendered, loadingInitial, loads,
                 sendReq, saveTimer, saveReqs, localStore, chatToasts,
                 chatMounted, sends, reloads, written, merged, loaded>>
  /\ UNCHANGED notSwitchVars

\* a load() of before the change: Promise.all rejects; lines 181-191
EarlierFetchReject(d, msg) ==
  /\ earlier[d].fetch > 0
  /\ earlier' = [earlier EXCEPT ![d].fetch = @ - 1]
  /\ chatToasts' = chatToasts (+) SetToBag(
       {OrElse(msg, "Failed to load document details and initial analysis.")})
  /\ loadingInitial' = SetState(FALSE, loadingInitial)
  /\ loaded' = SetState("failed", loaded)
  /\ UNCHANGED <<otherStore, switches>>
  /\ UNCHANGED <<documentId, messages, isLoading, rendered, header,
                 suggestedQuestions, loads, sendReq, saveTimer, saveReqs,
                 localStore, chatMounted, sends, reloads, written, merged>>
  /\ UNCHANGED notSwitchVars

\* a load() of before the change: getChatHistory resolves; lines 144-159,
\* 189-191
EarlierHistoryResolve(d, items) ==
  /\ earlier[d].history > 0
  /\ earlier' = [earlier EXCEPT ![d].history = @ - 1]
  /\ IF Len(items) > 0
     THEN LET convertedHistory == ConvertHistory(items, d)
          IN /\ SetMessages(BaseMessages(d) \o convertedHistory)
             /\ merged' = [from |-> "primary", source |-> items,
                           list |-> convertedHistory]
             /\ loaded' = SetState("history", loaded)
     ELSE /\ UNCHANGED <<messages, saveTimer, merged>>
          /\ loaded' = SetState("empty", loaded)
  /\ loadingInitial' = SetState(FALSE, loadingInitial)
  /\ UNCHANGED <<otherStore, switches>>
  /\ UNCHANGED <<documentId, isLoading, rendered, header, suggestedQuestions,
                 loads, sendReq, saveReqs, localStore, chatToasts, chatMounted,
                 sends, reloads, written>>
  /\ UNCHANGED notSwitchVars

\* a load() of before the change: getChatHistory rejects; lines 160-180,
\* 189-191
EarlierHistoryReject(d) ==
  /\ earlier[d].history > 0
  /\ earlier' = [earlier EXCEPT ![d].history = @ - 1]
  /\ IF StoreOf(d).present /\ StoreOf(d).valid
     THEN LET localHistory == ConvertLocal(StoreOf(d).items, d)
          IN /\ SetMessages(BaseMessages(d) \o localHistory)
             /\ merged' = [from |-> "local", source |-> StoreOf(d).items,
                           list |-> localHistory]
             /\ loaded' = SetState("local", loaded)
     ELSE /\ SetMessages(BaseMessages(d))
          /\ UNCHANGED merged
          /\ loaded' = SetState("base", loaded)
  /\ loadingInitial' = SetState(FALSE, loadingInitial)
  /\ UNCHANGED <<otherStore, switches>>
  /\ UNCHANGED <<documentId, isLoading, rendered, header, suggestedQuestions,
                 loads, sendReq, saveReqs, localStore, chatToasts, chatMounted,
                 sends, reloads, written>>
  /\ UNCHANGED notSwitchVars

ChatNext ==
  \/ LoadFetchResolve
  \/ \E msg \in LoadErrors : LoadFetchReject(msg)
  \/ \E items \in HistoryAnswers : HistoryResolve(items)
  \/ HistoryReject
  \/ SuggestResolve
  \/ SuggestReject
  \/ UserReplaced
  \/ \E text \in SendTexts : SendMessage(text)
  \/ Render
  \/ \E reply \in Replies : SendResolve(reply)
  \/ \E error \in SendErrors : SendReject(error)
  \/ \E rejects \in BOOLEAN : SaveTimerFire(rejects)
  \/ \E msgs \in saveReqs : SaveReject(msgs)
  \/ ChatUnmount

\* ===================================================================
\*  Specifications
\* ===================================================================
Init == UploadInit /\ NoStaleRuns /\ ValidateIdle /\ DedupIdle /\ RiskIdle /\ TextIdle /\ StatsIdle /\ NoSwitches /\ ChatIdle

\* the upload page
Spec == Init /\ [][Next]_vars

\* the upload page when the poll effect can run again for the same job
NextRerun ==
  \/ Next
  \/ DepsChanged
  \/ \E j \in JobIds : StaleTimerFire(j)
  \/ \E j \in JobIds, rejected \in BOOLEAN : StaleReturn(j, rejected)

SpecRerun == Init /\ [][NextRerun]_vars

\* the upload page when the service may answer a poll with any status,
\* whatever it answered before: the poll mirrors each answer it reads (lines
\* 58-74) and keeps asking after a completed answer without a document id
NextAnyAnswer ==
  \/ Next
  \/ \E j \in JobIds : \E r \in AllResponses(j) : PollResolve(j, r)

SpecAnyAnswer == Init /\ [][NextAnyAnswer]_vars

\* the upload page with the progress its runtime guarantees: a pending
\* setTimeout fires, and a fetch in flight settles one way or the other.
\* What the user does (adding files, submitting, leaving) may never happen.
PollReturn(j) ==
  \/ \E r \in JobResponses(j) : PollResolve(j, r)
  \/ \E msg \in PollErrors : PollReject(j, msg)

UploadReturn == UploadResolve \/ \E msg \in ErrorMessages : UploadReject(msg)

Fairness ==
  /\ \A j \in JobIds : WF_vars(PollTimerFire(j)) /\ WF_vars(PollReturn(j))
  /\ WF_vars(UploadReturn)

SpecLive == Init /\ [][Next]_vars /\ Fairness

\* validateFile on every file of ValidateFiles
InitValidate == UploadInit /\ NoStaleRuns /\ ValidateInit /\ DedupIdle /\ RiskIdle /\ TextIdle /\ StatsIdle /\ NoSwitches /\ ChatIdle
SpecValidate == InitValidate /\ [][Validate]_vars

\* deduplicateMessages on every input of DedupInputs
InitDedup == UploadInit /\ NoStaleRuns /\ ValidateIdle /\ DedupInit /\ RiskIdle /\ TextIdle /\ StatsIdle /\ NoSwitches /\ ChatIdle
SpecDedup == InitDedup /\ [][Deduplicate]_vars

\* the chat page
InitChat == UploadInit /\ NoStaleRuns /\ ValidateIdle /\ DedupIdle /\ RiskIdle /\ TextIdle /\ StatsIdle /\ NoSwitches /\ ChatInit
SpecChat == InitChat /\ [][ChatNext]_vars

\* the chat page when the route can hand it another document id
NextSwitch ==
  \/ ChatNext
  \/ \E d \in ChatDocs : DocumentChanged(d)
  \/ \E d \in ChatDocs : EarlierFetchResolve(d)
  \/ \E d \in ChatDocs, msg \in LoadErrors : EarlierFetchReject(d, msg)
  \/ \E d \in ChatDocs, items \in HistoryAnswers : EarlierHistoryResolve(d, items)
  \/ \E d \in ChatDocs : EarlierHistoryReject(d)

SpecSwitch == InitChat /\ [][NextSwitch]_vars

\* the risk tiers of every score of RiskScores
InitRisk == UploadInit /\ NoStaleRuns /\ ValidateIdle /\ DedupIdle /\ RiskInit /\ TextIdle /\ StatsIdle /\ NoSwitches /\ ChatIdle
SpecRisk == InitRisk /\ [][Classify]_vars

\* RichText on every content of Contents
InitRichText == UploadInit /\ NoStaleRuns /\ ValidateIdle /\ DedupIdle /\ RiskIdle /\ TextInit /\ StatsIdle /\ NoSwitches /\ ChatIdle
SpecRichText == InitRichText /\ [][RenderText]_vars

\* getDashboardStats on every list of StatsInputs
InitStats == UploadInit /\ NoStaleRuns /\ ValidateIdle /\ DedupIdle /\ RiskIdle /\ TextIdle /\ StatsInit /\ NoSwitches /\ ChatIdle
SpecStats == InitStats /\ [][ComputeStats]_vars

\* ===================================================================
\*  Properties of the upload page
\* ===================================================================
Last(seq) == seq[Len(seq)]
Count(seq, x) == Cardinality({i \in 1..Len(seq) : seq[i] = x})

\* the i-th entry of a poll history is an answer "completed" with a document
\* id, read by a poll that was not torn down
NavigateAt(lg, i) ==
  lg[i].kind = "resp" /\ lg[i].live /\ lg[i].status = "completed" /\ lg[i].doc # NoDoc

FailedAt(lg, i) == lg[i].kind = "resp" /\ lg[i].live /\ lg[i].status = "failed"

NoRequestAfter(lg, i) == \A k \in (i + 1)..Len(lg) : lg[k].kind # "req"

\* C1: once the poll of a job reads "completed" with a result document id, no
\* getJobStatus request is issued for that job any more and navigation to
\* /chat/<document id> has happened exactly once (and never more than once).
C1_StopsAndNavigatesOnce ==
  \A j \in JobIds :
    /\ Count(navigations, ChatPath(DocOf(j))) <= 1
    /\ \A i \in 1..Len(pollLog[j]) :
         NavigateAt(pollLog[j], i) =>
           /\ NoRequestAfter(pollLog[j], i)
           /\ Count(navigations, ChatPath(pollLog[j][i].doc)) = 1

\* the poll sequence processing, processing, completed(doc) was read
C1_Witness ==
  \E j \in JobIds :
    /\ Len(pollLog[j]) = 6
    /\ pollLog[j][2].status = "processing"
    /\ pollLog[j][4].status = "processing"
    /\ NavigateAt(pollLog[j], 6)
    /\ navigations = <<ChatPath(DocOf(j))>>

\* what a task shows as its failure message: its error field, or the error of
\* its job status snapshot
TaskCarries(f, m) == f.error = m \/ f.jobStatus.error = m

\* C2 (as claimed): after a poll read status "failed" for a job, every task of
\* that job is in status "error" and carries the service's error message, or
\* the generic fallback when the service gave none, and no further request is
\* issued for the job.
C2_FailedTaskCarriesMessage ==
  \A j \in JobIds : \A i \in 1..Len(pollLog[j]) :
    FailedAt(pollLog[j], i) =>
      /\ NoRequestAfter(pollLog[j], i)
      /\ \A k \in 1..Len(files) :
           files[k].jobId = j =>
             /\ files[k].status = "error"
             /\ TaskCarries(files[k], OrElse(jobs[j].error, "An error occurred during analysis."))

LiveRejectStep(j) == pollLog'[j] = Append(pollLog[j], Rej(TRUE))

LiveRescheduleStep(j) ==
  /\ Len(pollLog'[j]) = Len(pollLog[j]) + 1
  /\ Last(pollLog'[j]).kind = "resp" /\ Last(pollLog'[j]).live
  /\ ~NavigateAt(pollLog'[j], Len(pollLog'[j]))
  /\ ~FailedAt(pollLog'[j], Len(pollLog'[j]))

C3_Step ==
  \A j \in JobIds :
    /\ LiveRejectStep(j) =>
         /\ files' = files /\ activeJobId' = activeJobId
         /\ polls'[j].pc = "timer" /\ polls'[j].delay = 4000
    /\ LiveRescheduleStep(j) =>
         polls'[j].pc = "timer" /\ polls'[j].delay = 2000
    /\ polls[j].pc = "timer" =>
         \/ polls'[j].pc = "timer"
         \/ polls'[j].pc = "awaiting" /\ pollLog'[j] = Append(pollLog[j], Req)

\* C3: a rejected poll request changes no task and does not end polling: the
\* next poll is scheduled 4000 ms later (2000 ms after an answer that is not
\* terminal), however many rejections came before, and a scheduled poll is
\* never dropped: it issues the next request.
C3_RejectionRetries == [][C3_Step]_vars

\* two rejections in a row, then "processing" is read
C3_Witness ==
  \E j \in JobIds :
    /\ Len(pollLog[j]) = 6
    /\ pollLog[j][2] = Rej(TRUE) /\ pollLog[j][4] = Rej(TRUE)
    /\ pollLog[j][6].kind = "resp" /\ pollLog[j][6].live
    /\ pollLog[j][6].status = "processing"
    /\ polls[j].pc = "timer" /\ polls[j].delay = 2000

\* C5: a file that fails validation is created in status "error" with a
\* message, and every uploadDocument call was made for a task in status
\* "pending" whose file passes validation.
C5_InvalidNeverUploaded ==
  /\ \A i \in 1..Len(enqLog) :
       validateFile(enqLog[i].file) # Null =>
         enqLog[i].status = "error" /\ enqLog[i].error = validateFile(enqLog[i].file)
  /\ \A i \in 1..Len(uploadCalls) :
       /\ uploadCalls[i].status = "pending"
       /\ validateFile(uploadCalls[i].file) = Null

C5_Witness ==
  /\ Len(uploadCalls) > 0
  /\ \E i \in 1..Len(enqLog) : validateFile(enqLog[i].file) # Null

\* C6 (as claimed): no two tasks of the task list have the same id.
C6_UniqueTaskIds ==
  \A i, k \in 1..Len(files) : i # k => files[i].id # files[k].id

RejectedWhileMounted(c) == c.outcome = "rejected" /\ mounted

C7_State ==
  \A i \in 1..Len(uploadCalls) :
    RejectedWhileMounted(uploadCalls[i]) =>
      LET c == uploadCalls[i]
          f == files[c.idx]
      IN /\ f.status = "error"
         /\ f.error = (IF c.msg # "" THEN c.msg ELSE "Upload failed")
         /\ f.jobId = NoJobId
         /\ \E t \in toasts : t.title = "Upload error"
         /\ Cardinality({k \in 1..Len(uploadCalls) : uploadCalls[k].idx = c.idx}) = 1

C7_Step ==
  (Len(uploadCalls') = Len(uploadCalls) /\ uploadCalls' # uploadCalls
     /\ Last(uploadCalls').outcome = "rejected")
    => activeJobId' = activeJobId /\ polls' = polls /\ pollLog' = pollLog

\* C7: when uploadDocument rejects, the submitted task is in status "error"
\* with the rejection's message ("Upload failed" when it is empty), has no job
\* id, the user was notified with an "Upload error" toast, the task is not
\* submitted a second time, and the rejection leaves activeJobId and the
\* polls as they were.
C7_SubmitFailureIsTerminal == []C7_State /\ [][C7_Step]_vars

C7_Witness ==
  \E i \in 1..Len(uploadCalls) :
    /\ RejectedWhileMounted(uploadCalls[i])
    /\ uploadCalls[i].msg = "Server busy"
    /\ files[uploadCalls[i].idx].error = "Server busy"
    /\ activeJobId # NoJob

\* ===================================================================
\*  Properties of validateFile
\* ===================================================================
HasDot(name) == \E i \in 1..Len(name) : name[i] = "."

\* the text after the last dot of a name that has one
AfterLastDot(name) ==
  LET d == CHOOSE i \in 1..Len(name) :
             name[i] = "." /\ \A k \in (i + 1)..Len(name) : name[k] # "."
  IN SubSeq(name, d + 1, Len(name))

C4_IsPdf(name) == HasDot(name) /\ toLowerCase(AfterLastDot(name)) = <<"p", "d", "f">>

C4_Expected(file) ==
  IF ~C4_IsPdf(file.name) THEN ERR_FORMAT
  ELSE IF file.size > 20 * 1024 * 1024 THEN ERR_SIZE
  ELSE Null

\* C4 (as claimed): validate(file) answers the unsupported-format error for
\* every file whose extension (the text after the last dot, case-insensitive,
\* none without a dot) is not pdf, else the too-large error exactly when the
\* size exceeds 20 MiB, else it passes.
C4_ValidateByExtension == vResult # "idle" => vResult = C4_Expected(vFile)

\* ===================================================================
\*  Properties of deduplicateMessages
\* ===================================================================
\* role and first 100 characters, position by position
SameKey(a, b) ==
  /\ a.role = b.role
  /\ \A k \in 1..KeyLength :
       /\ (k <= Len(a.content)) <=> (k <= Len(b.content))
       /\ (k <= Len(a.content)) => a.content[k] = b.content[k]

FirstOfKey == {i \in 1..Len(dIn) : \A j \in 1..(i - 1) : ~SameKey(dIn[j], dIn[i])}

KeptIds == {dOut.out[k].id : k \in 1..Len(dOut.out)}

\* C8: deduplicateMessages returns the subsequence of its input that keeps
\* exactly the first message of each key (role, first 100 characters of
\* content), in the original order: no two kept messages share a key and
\* every dropped message has an earlier kept message with its key.
C8_KeepsFirstOfEachKey ==
  dOut.done =>
    /\ \A k \in 1..Len(dOut.out) :
         /\ dOut.out[k].id \in 1..Len(dIn)
         /\ dOut.out[k] = dIn[dOut.out[k].id]
    /\ \A k \in 1..(Len(dOut.out) - 1) : dOut.out[k].id < dOut.out[k + 1].id
    /\ KeptIds = FirstOfKey
    /\ \A k, l \in 1..Len(dOut.out) : k # l => ~SameKey(dOut.out[k], dOut.out[l])
    /\ \A i \in (1..Len(dIn)) \ KeptIds :
         \E j \in KeptIds : j < i /\ SameKey(dIn[j], dIn[i])

\* two messages of one role that agree on 100 characters and differ after
\* them went in, and only the first came out
C8_Witness ==
  /\ dOut.done
  /\ \E i, j \in 1..Len(dIn) :
       /\ i < j
       /\ dIn[i].role = dIn[j].role
       /\ Len(dIn[i].content) > KeyLength
       /\ dIn[i].content # dIn[j].content
       /\ SameKey(dIn[i], dIn[j])
       /\ i \in KeptIds
       /\ j \notin KeptIds

\* a step in which the poll of job j gets something back / asks again
Returned(j) == Len(pollLog'[j]) = Len(pollLog[j]) + 1 /\ Last(pollLog'[j]).kind # "req"
Rejected(j) == Returned(j) /\ Last(pollLog'[j]).kind = "rej"
Requested(j) == Len(pollLog'[j]) = Len(pollLog[j]) + 1 /\ Last(pollLog'[j]).kind = "req"

ReadFailed(j) == Returned(j) /\ Last(pollLog'[j]).status = "failed"

PollFailureToast(t) == t.title \in {"Error", "Analysis failed"}

C17_Step ==
  /\ (\E j \in JobIds : Rejected(j)) => toasts' = toasts
  /\ (\E t \in toasts' \ toasts : PollFailureToast(t)) => \E j \in JobIds : ReadFailed(j)

\* C17: a rejected getJobStatus request is retried without any notification
\* to the user; only a job read with status "failed" produces a failure
\* notification of the poll.
C17_PollErrorIsSilent == [][C17_Step]_vars

C18_Step ==
  \A j \in JobIds :
    (polls[j].cancelled /\ Returned(j)) =>
      /\ files' = files
      /\ toasts' = toasts
      /\ navigations' = navigations
      /\ activeJobId' = activeJobId

\* C18: once the poll effect of a job has been torn down (unmount, or
\* activeJobId changed), a response or a rejection that arrives for its
\* request changes neither the task list nor activeJobId, shows no
\* notification and navigates nowhere.
C18_LateAnswerIsDropped == [][C18_Step]_vars

\* an answer was dropped unread after the teardown
C18_Witness ==
  \E j \in JobIds :
    /\ polls[j].cancelled
    /\ Len(pollLog[j]) > 0
    /\ Last(pollLog[j]).kind \in {"resp", "rej"}
    /\ ~Last(pollLog[j]).live

C19_Step ==
  \A j \in JobIds : polls[j].cancelled => ~Requested(j)

\* C19: after the poll effect has been torn down before a terminal status
\* was read, no further getJobStatus request is issued for the job: a tick
\* scheduled before the teardown sends no request after it.
C19_NoRequestAfterTeardown == [][C19_Step]_vars

\* the getJobStatus requests of job j in flight
InFlight(j) == (IF polls[j].pc = "awaiting" THEN 1 ELSE 0) + stale[j].awaiting

\* C20: there are never two getJobStatus requests in flight for the same job
\* id, also when the poll effect runs again for the same activeJobId while a
\* tick of the earlier run is still scheduled.
C20_OneRequestPerJob == \A j \in JobIds : InFlight(j) <= 1

\* the moves of a task's status that the upload flow is meant to make
StatusMoves ==
  { <<"pending", "uploading">>, <<"uploading", "processing">>,
    <<"uploading", "error">>, <<"processing", "complete">>,
    <<"processing", "error">> }

C21_Step ==
  \A i \in 1..Len(files) :
    \/ files'[i].status = files[i].status
    \/ <<files[i].status, files'[i].status>> \in StatusMoves

\* C21: the status of every upload task only moves pending -> uploading ->
\* processing -> complete | error (and uploading -> error when the submit
\* fails); a task that is complete or error keeps its status for good.
C21_StatusOnlyMovesForward == [][C21_Step]_vars

\* the poll of job j reads an answer with a terminal status
ReadTerminal(j) ==
  /\ Returned(j)
  /\ Last(pollLog'[j]).kind = "resp"
  /\ Last(pollLog'[j]).live
  /\ Last(pollLog'[j]).status \in {"completed", "failed"}

C22_Step ==
  \A j \in JobIds : ReadTerminal(j) => polls'[j].pc # "timer"

\* C22: after a poll response with status completed or failed, with or
\* without a result document id, no further poll is scheduled for the job.
C22_TerminalStatusEndsPolling == [][C22_Step]_vars

\* the i-th task of the list is shown as processing / has reached complete
\* or error
Processing(i) == i <= Len(files) /\ files[i].status = "processing"
Settled(i) == i <= Len(files) /\ files[i].status \in {"complete", "error"}

\* the polls the model allows are used up before the service answered with a
\* terminal status
PollsUsedUp == TimerRequests(JobIds) >= MaxPolls

\* C29: every upload task that reached processing eventually reaches
\* complete or error, provided the service eventually reports a terminal
\* status for its job and the upload page stays mounted, also when the user
\* submits another pending file while the first job is still running.
C29_ProcessingEventuallySettles ==
  \A i \in 1..MaxFiles : Processing(i) ~> (Settled(i) \/ ~mounted \/ PollsUsedUp)

\* ===================================================================
\*  Properties of the chat page
\* ===================================================================
Flagged(item) == "isReport" \in DOMAIN item /\ item.isReport

HasMarker(item) == includes(item.content, Marker)

Clean(list) == \A i \in 1..Len(list) : ~Flagged(list[i]) /\ ~HasMarker(list[i])

\* C9: every payload handed to chat history storage (saveChatHistory or the
\* local fallback cache) and every history list merged into the transcript
\* on load holds no message flagged isReport and no message whose content
\* contains "I've analyzed your contract", whatever the stores held before.
C9_HistoryHoldsNoSyntheticMessage ==
  /\ Clean(written.payload)
  /\ Clean(merged.list)

\* a stored payload with a summary was merged, and a transcript with the
\* report and the summary was saved
C9_Witness ==
  /\ merged.from # "none"
  /\ \E i \in 1..Len(merged.source) : HasMarker(merged.source[i])
  /\ Len(merged.list) > 0
  /\ written.store # "none"
  /\ Len(written.payload) > 0
  /\ \E m \in saveReqs \cup {saveTimer.messages, messages} :
       /\ \E i \in 1..Len(m) : m[i].isReport
       /\ \E i \in 1..Len(m) : HasMarker(m[i])

StartsWithBase(msgs) ==
  /\ Len(msgs) >= 2
  /\ msgs[1] = BaseMessages(documentId)[1]
  /\ msgs[1].isReport
  /\ msgs[2] = BaseMessages(documentId)[2]

\* C10: once a bootstrap load whose three fetches resolved has ended and
\* loadingInitial is false, the transcript starts with the report message
\* and then the summary message, with the loaded history after them,
\* whether the history lookup gave turns, gave none, or failed.
C10_TranscriptStartsWithReportAndSummary ==
  (chatMounted /\ ~loadingInitial /\ loaded \in {"history", "empty", "local", "base"})
    => /\ StartsWithBase(messages)
       /\ loaded \in {"history", "local"} =>
            SubSeq(messages, 3, 2 + Len(merged.list)) = merged.list

\* a step in which a load ends at its three fetches
FetchRejectStep ==
  loads'.fetch = loads.fetch - 1 /\ loads'.history = loads.history

C11_Step ==
  FetchRejectStep =>
    /\ messages' = messages
    /\ header' = header
    /\ suggestedQuestions' = suggestedQuestions
    /\ BagCardinality(chatToasts') = BagCardinality(chatToasts) + 1
    /\ chatMounted => ~loadingInitial'

\* C11: when one of the three bootstrap fetches rejects, the transcript and
\* the header data stay as they were (no report or summary message appears),
\* exactly one error notification is shown, and loadingInitial becomes false.
C11_FetchFailureShowsNothing == [][C11_Step]_vars

\* the first load failed: nothing in the transcript, one notification
C11_Witness ==
  /\ chatMounted
  /\ loaded = "failed"
  /\ reloads = 0
  /\ messages = <<>>
  /\ header = NoHeader
  /\ ~loadingInitial
  /\ BagCardinality(chatToasts) = 1

\* C12: at any time at most one chat request (chatWithDocument or
\* chatWithBot) is in flight, also when sendMessage is called twice before
\* the view renders again.
C12_AtMostOneRequestInFlight == Len(sendReq) <= 1

\* a step in which a chat request comes back
SendReturnStep == Len(sendReq') < Len(sendReq)

\* the request failed: one more toast, the transcript as it was
SendFailed ==
  /\ BagCardinality(chatToasts') = BagCardinality(chatToasts) + 1
  /\ messages' = messages

\* the request succeeded: no toast, and on a mounted page one more message,
\* an assistant message with a response of the service
SendSucceeded ==
  /\ chatToasts' = chatToasts
  /\ chatMounted =>
       /\ Len(messages') = Len(messages) + 1
       /\ SubSeq(messages', 1, Len(messages)) = messages
       /\ Last(messages').role = "assistant"
       /\ Last(messages').content \in Replies
       /\ ~Last(messages').isReport

C13_Step ==
  SendReturnStep =>
    /\ SendFailed \/ SendSucceeded
    /\ chatMounted => ~isLoading' /\ ~rendered'

\* C13: a chat request that fails shows an error, appends no assistant
\* message, leaves the user message in the transcript and sets the sending
\* flag back to false, so that a later send is accepted; one that succeeds
\* appends exactly one assistant message with the service's response.
C13_SendOutcome == [][C13_Step]_vars

\* a send failed, the next one was accepted and answered
C13_Witness ==
  /\ chatMounted
  /\ sends = 2
  /\ sendReq = <<>>
  /\ ~isLoading
  /\ BagCardinality(chatToasts) = 1
  /\ Len(messages) = 3
  /\ messages[1].role = "user"
  /\ messages[2].role = "user"
  /\ messages[3].role = "assistant"
  /\ messages[3].content \in Replies

\* a step in which the history lookup of a load comes back
HistoryReturnStep == loads'.history = loads.history - 1

Unflagged(m) == ~Flagged(m) /\ ~HasMarker(m)

\* what the local cache holds for the transcript: its unflagged messages,
\* renumbered, or nothing when it is missing or unreadable
LocalHistory ==
  IF localStore.present /\ localStore.valid
  THEN LET kept == SelectSeq(localStore.items, Unflagged)
       IN [i \in 1..Len(kept) |->
             [kept[i] EXCEPT !.id = MsgId("local", i - 1, documentId)]]
  ELSE <<>>

FromCache(m) == m.id.kind = "local"

C14_Step ==
  (HistoryReturnStep /\ chatMounted) =>
    IF loaded' \in {"local", "base"}
    THEN messages' = BaseMessages(documentId) \o LocalHistory
    ELSE /\ loaded' \in {"history", "empty"}
         /\ merged'.from = "local" => merged' = merged
         /\ \/ messages' = messages
            \/ \A i \in 1..Len(messages') : ~FromCache(messages'[i])

\* C14: the local cache is read exactly when the history lookup raised an
\* error: a lookup that returns a list, empty or not, puts nothing of the
\* cache into the transcript, and a failed lookup puts the two synthetic
\* messages and then the marker-filtered cached history (or nothing) there.
C14_CacheOnlyAfterFailedLookup == [][C14_Step]_vars

\* the lookup failed with a cache holding report, summary and one true turn
C14_Witness ==
  /\ chatMounted
  /\ loaded = "local"
  /\ merged.from = "local"
  /\ \E i \in 1..Len(merged.source) : HasMarker(merged.source[i])
  /\ Len(messages) = 3
  /\ StartsWithBase(messages)
  /\ FromCache(messages[3])

\* a message that is not one of the two synthetic bootstrap messages
RealTurn(m) == m.id.kind \notin {"report", "summary"}

HasRealTurn(msgs) == \E i \in 1..Len(msgs) : RealTurn(msgs[i])

\* the transcript of a mounted document chat changes to one with a real turn
TranscriptChangeStep ==
  /\ chatMounted
  /\ documentId # NoDocument
  /\ messages' # messages
  /\ HasRealTurn(messages')

\* the pending save timer runs out (it is not cleared)
SaveDueStep ==
  /\ saveTimer.armed
  /\ ~saveTimer'.armed
  /\ messages' = messages
  /\ chatMounted'

C15_Step ==
  /\ TranscriptChangeStep =>
       saveTimer' = [armed |-> TRUE, delay |-> SAVE_DELAY, messages |-> messages']
  /\ SaveDueStep =>
       written' = [store |-> "primary",
                   payload |-> [i \in 1..Len(SelectSeq(saveTimer.messages, Unflagged)) |->
                      [role |-> SelectSeq(saveTimer.messages, Unflagged)[i].role,
                       content |-> SelectSeq(saveTimer.messages, Unflagged)[i].content]]]

\* C15: every change of the transcript of a mounted document chat to one with
\* a real turn beyond the synthetic messages replaces the pending save timer
\* by one of 2000 ms for the new transcript, and a timer that runs out
\* attempts one save of the filtered transcript.
C15_SaveAfterQuietPeriod == [][C15_Step]_vars

C23_Step ==
  ~chatMounted => (written' = written /\ localStore' = localStore)

\* C23: once the chat view is unmounted nothing is written to the primary
\* history store or to the local fallback cache, neither by a save timer
\* that was pending nor by a save request in flight that then fails.
C23_NoWriteAfterUnmount == [][C23_Step]_vars

\* role and content of the messages of a list
Turns(list) == [i \in 1..Len(list) |-> [role |-> list[i].role, content |-> list[i].content]]

\* a step in which the saveChatHistory call made for the transcript msgs fails
SaveFailedStep(msgs) == msgs \in saveReqs /\ saveReqs' = saveReqs \ {msgs}

C24_Step ==
  /\ \A msgs \in saveReqs :
       SaveFailedStep(msgs) =>
         /\ chatToasts' = chatToasts
         /\ localStore'.present /\ localStore'.valid
         /\ localStore'.items = SelectSeq(msgs, Unflagged)
         /\ Turns(localStore'.items) = HistoryPayload(msgs)
  /\ localStore' # localStore => \E msgs \in saveReqs : SaveFailedStep(msgs)

\* C24: a failure of saveChatHistory is never shown to the user; the same
\* filtered subset of the transcript is then written to the local cache of
\* the document, and the local cache is written only when the primary save
\* failed.
C24_FailedSaveFallsBackSilently == [][C24_Step]_vars

\* a save failed and its transcript, without report and summary, is cached
C24_Witness ==
  /\ written.store = "local"
  /\ Len(written.payload) > 0
  /\ localStore = stringify(written.payload)
  /\ chatToasts = EmptyBag
  /\ saveReqs = {}

\* a message that sendMessage put into the transcript
Sent(m) == m.id.kind \in {"user", "assistant"}

\* the load effect starts another load
LoadStarts == loads'.fetch > loads.fetch \/ loads'.suggest > loads.suggest

C25_Step ==
  /\ ~LoadStarts
  /\ \A i \in 1..Len(messages) :
       Sent(messages[i]) => \E k \in 1..Len(messages') : messages'[k] = messages[i]

\* C25: the bootstrap load runs once per document id: while the view stays
\* on its document id no later event, such as a new auth user object, runs
\* the load again, and no message appended by sendMessage is discarded.
C25_LoadRunsOncePerDocument == [][C25_Step]_vars

\* a result of a load() that was started for document d before the view's
\* document id changed comes in
LateResult(d) == earlier'[d] # earlier[d] /\ documentId' = documentId

\* C28: if the chat view's document id changes while an earlier bootstrap
\* load is still in flight, the late results of the earlier load never
\* overwrite the transcript or the header data of the newer document.
C28_Step ==
  \A d \in ChatDocs :
    (chatMounted /\ d # documentId /\ LateResult(d)) =>
      /\ messages' = messages
      /\ header' = header

C28_LateLoadNeverOverwrites == [][C28_Step]_vars

\* ===================================================================
\*  Properties of the risk tiers
\* ===================================================================
\* C16: for every integer risk_score from 0 to 100 the tier is high exactly
\* when the score is above 70, medium from 40 to 70 inclusive and low below
\* 40, and the chat risk badge and the dashboard counts (high-risk above 70,
\* safe below 40) put every score into the same tier.
C16_OneRiskTierPerScore ==
  (rOut.done /\ rScore \in 0..MaxScore) =>
    /\ rOut.level = "high" <=> rScore > 70
    /\ rOut.level = "medium" <=> (rScore >= 40 /\ rScore <= 70)
    /\ rOut.level = "low" <=> rScore < 40
    /\ rOut.level \in {"high", "medium", "low"}
    /\ rOut.badge = "red" <=> rOut.level = "high"
    /\ rOut.badge = "yellow" <=> rOut.level = "medium"
    /\ rOut.badge = "emerald" <=> rOut.level = "low"
    /\ rOut.highRisk <=> rOut.level = "high"
    /\ rOut.safe <=> rOut.level = "low"

\* the score on the upper edge of medium has been classified
C16_Witness ==
  /\ rOut.done
  /\ rScore = 70
  /\ rOut.level = "medium"
  /\ rOut.badge = "yellow"
  /\ ~rOut.highRisk /\ ~rOut.safe

\* ===================================================================
\*  Properties of RichText
\* ===================================================================
RenderedLines == split(tContent, NewLine)
IsSpacer(e) == e.kind = "spacer"
IsCode(e) == e.kind = "code"
Spacers(elements) == Len(SelectSeq(elements, IsSpacer))
CodeTexts(elements) ==
  LET blocks == SelectSeq(elements, IsCode)
  IN [i \in 1..Len(blocks) |-> blocks[i].text]

\* line i is outside the code fences: it is no fence line, and the fence
\* lines before it pair up
FencesBefore(lines, i) == Cardinality({k \in 1..(i - 1) : IsFence(lines[k])})
OutsideFences(lines, i) == ~IsFence(lines[i]) /\ FencesBefore(lines, i) % 2 = 0
BlankOutside(lines, i) == OutsideFences(lines, i) /\ trim(lines[i]) = <<>>

\* the first lines of the maximal runs of consecutive blank lines outside
\* the code fences
RunStarts(lines) ==
  {i \in 1..Len(lines) :
     BlankOutside(lines, i) /\ (i = 1 \/ ~BlankOutside(lines, i - 1))}

\* C26: RichText emits exactly one spacer for every maximal run of
\* consecutive blank lines outside code fences, also for a run that directly
\* follows a code block or the start of the content.
C26_OneSpacerPerBlankRun ==
  tOut.done => Spacers(tOut.elements) = Cardinality(RunStarts(RenderedLines))

\* the fence lines of the rendering contract: three backticks and nothing
\* else after trimming; the odd ones open a code block
ExactFences(lines) == {i \in 1..Len(lines) : trim(lines[i]) = Fence}
Opens(lines, i) ==
  i \in ExactFences(lines)
    /\ Cardinality({k \in ExactFences(lines) : k <= i}) % 2 = 1
ClosingLine(lines, o) ==
  IF \E c \in ExactFences(lines) : c > o
  THEN CHOOSE c \in ExactFences(lines) :
         c > o /\ \A d \in ExactFences(lines) : d > o => c <= d
  ELSE Len(lines) + 1

\* the code blocks between such fences from line i on, each the lines
\* between its fences joined; a fence left open ends with the content
RECURSIVE FencedBlocks(_, _)
FencedBlocks(lines, i) ==
  IF i > Len(lines) THEN <<>>
  ELSE IF Opens(lines, i) /\ ClosingLine(lines, i) > i + 1
    THEN <<join(SubSeq(lines, i + 1, ClosingLine(lines, i) - 1), NewLine)>>
           \o FencedBlocks(lines, i + 1)
  ELSE FencedBlocks(lines, i + 1)

\* C27: a code fence is opened and closed only by a line whose trimmed
\* content is exactly three backticks; the lines between an opening and a
\* closing fence are emitted verbatim as one code block with no fence line in
\* it, and a fence left open at the end of the input still emits its
\* buffered lines as a code block.
C27_FenceIsExactlyThreeBackticks ==
  tOut.done => CodeTexts(tOut.elements) = FencedBlocks(RenderedLines, 1)

\* ===================================================================
\*  Properties of getDashboardStats
\* ===================================================================
SomeCompleted == \E i \in 1..Len(sDocs) : sDocs[i].status = "completed"

\* C30: getDashboardStats returns averageRiskPercentage +
\* averageSafePercentage = 100 whenever at least one document is completed,
\* for all integer risk scores 0..100; both are 0 when none is; and
\* highRiskCount + safeCount + analyzingCount never exceeds totalDocuments.
C30_AveragesAddUpTo100 ==
  sOut.done =>
    /\ SomeCompleted =>
         sOut.stats.averageRiskPercentage + sOut.stats.averageSafePercentage = 100
    /\ ~SomeCompleted =>
         /\ sOut.stats.averageRiskPercentage = 0
         /\ sOut.stats.averageSafePercentage = 0
    /\ sOut.stats.highRiskCount + sOut.stats.safeCount + sOut.stats.analyzingCount
         <= sOut.stats.totalDocuments

====
